---------------------------- MODULE Spec2Model ----------------------------
(***************************************************************************)
(* Model of 05-agentic-rag/code_samples/05-azure-ai-agent.ipynb: the       *)
(* provisioning cells (file upload, vector store, toolset), the            *)
(* PromptPlugin, process_query and main() with its try/finally teardown.   *)
(* The hosted agent service is modelled as a remote side that answers      *)
(* every call issued by the notebook by returning or by raising.           *)
(* Strings are sequences of one-character strings.                         *)
(***************************************************************************)
EXTENDS Integers, Sequences, FiniteSets, TLC

\* ------------------------------------------------------------------ bounds
MaxQueries == 2      \* longest user_inputs list explored
MaxBlocks == 2       \* most content blocks the agent writes in one execution
MaxStr == 2          \* longest query / retrieval_context given to the plugin

\* ------------------------------------------------------- string literals
ContextHeader ==
  <<"R","e","t","r","i","e","v","e","d"," ","C","o","n","t","e","x","t",":",
    "\n">>

Blank ==
  <<"\n","\n">>

QueryHeader ==
  <<"U","s","e","r"," ","Q","u","e","r","y",":"," ">>

Instruction ==
  <<"I","M","P","O","R","T","A","N","T",":"," ","A","n","s","w","e","r"," ",
    "O","N","L","Y"," ","b","a","s","e","d"," ","o","n"," ","t","h","e"," ",
    "a","b","o","v","e"," ","c","o","n","t","e","x","t","."," ","I","f"," ",
    "t","h","e"," ","c","o","n","t","e","x","t"," ","d","o","e","s"," ","n",
    "o","t"," ","p","r","o","v","i","d","e"," ","e","n","o","u","g","h"," ",
    "i","n","f","o","r","m","a","t","i","o","n",","," ","r","e","s","p","o",
    "n","d"," ","w","i","t","h"," ","'","I","n","s","u","f","f","i","c","i",
    "e","n","t"," ","c","o","n","t","e","x","t"," ","p","r","o","v","i","d",
    "e","d",".","'">>

FallbackPhrase ==
  <<"I","n","s","u","f","f","i","c","i","e","n","t"," ","c","o","n","t","e",
    "x","t"," ","p","r","o","v","i","d","e","d",".">>

\* characters the plugin's arguments are drawn from: a letter, a brace (the
\* f-string's own delimiter) and a newline
Alphabet == {"a", "{", "\n"}

Strings == UNION {[1..n -> Alphabet] : n \in 0..MaxStr}

\* ------------------------------------------------------------ PromptPlugin
build_augmented_prompt_swapped(query, retrieval_context) ==
  ContextHeader \o query \o Blank \o QueryHeader \o retrieval_context
    \o Blank \o Instruction

build_augmented_prompt(query, retrieval_context) ==
  ContextHeader \o retrieval_context \o Blank \o QueryHeader \o query
    \o Blank \o Instruction

\* ------------------------------------------------------------- user_inputs
\* the k-th query of the input list: "?", "q?", "qq?", ... (pairwise distinct)
Query(k) == [j \in 1..k |-> IF j = k THEN "?" ELSE "q"]

UserInputs(n) == [k \in 1..n |-> Query(k)]

\* --------------------------------------------------- messages of the thread
TextBlock(v) == [type |-> "text", has_text |-> TRUE, value |-> v]

\* a block tagged text that carries no "text" payload
BadTextBlock == [type |-> "text", has_text |-> FALSE, value |-> <<>>]

ImageBlock == [type |-> "image_file", has_text |-> FALSE, value |-> <<>>]

\* the text the hosted agent writes in block i of its reply to query k
ReplyText(k, i) == [j \in 1..(k + i) |-> IF j <= k THEN "r" ELSE "b"]

BlockKinds == {"text", "image_file", "bad"}

ReplyBlock(kind, k, i) ==
  CASE kind = "text" -> TextBlock(ReplyText(k, i))
    [] kind = "bad" -> BadTextBlock
    [] OTHER -> ImageBlock

Message(role, has_content, content) ==
  [role |-> role, has_content |-> has_content, content |-> content]

VARIABLES
  pc,             \* the statement the notebook is at
  inflight,       \* TRUE while the remote call at pc is issued, not answered
  uploaded_file,  \* id of uploaded_file, 0 while unassigned
  vector_store,   \* id of vector_store, 0 while unassigned
  toolset,        \* vector store ids of the FileSearchTool in the ToolSet
  agent,          \* agent.id, 0 while unassigned
  plugins,        \* plugins registered in agent.kernel
  thread,         \* thread.id, 0 while unassigned
  user_inputs,    \* the list of queries
  idx,            \* position of user_query in user_inputs, 0 before the loop
  processed,      \* number of process_query calls that returned
  run,            \* status of the run being processed
  messages,       \* the value list_messages returned
  printed,        \* the "Text:" lines printed, each with its query position
  pending,        \* the step whose exception is propagating, "none" if none
  next_id,        \* the id the remote side hands out next
  live,           \* ids of the remote resources that exist
  thread_msgs,    \* the remote thread's messages, most recent first
  trace,          \* every remote call issued, returned or raised, in order
  q_in,           \* query argument given to the plugin
  ctx_in,         \* retrieval_context argument given to the plugin
  augmented       \* what build_augmented_prompt returned, if it was called

vars ==
  <<pc, inflight, uploaded_file, vector_store, toolset, agent, plugins,
    thread, user_inputs, idx, processed, run, messages, printed, pending,
    next_id, live, thread_msgs, trace, q_in, ctx_in, augmented>>

\* the number of content blocks the agent has written in the messages msgs
RECURSIVE BlocksWritten(_)
BlocksWritten(msgs) ==
  IF msgs = <<>> THEN 0
  ELSE (IF msgs[1].role = "assistant" THEN Len(msgs[1].content) ELSE 0)
         + BlocksWritten(Tail(msgs))

\* the contents the hosted agent may put in its reply to query k
ReplyContents(k) ==
  UNION { { [i \in 1..n |-> ReplyBlock(kinds[i], k, i)] :
              kinds \in [1..n -> BlockKinds] } :
          n \in 0..(MaxBlocks - BlocksWritten(thread_msgs)) }

Replies(k) ==
  {Message("assistant", TRUE, c) : c \in ReplyContents(k)}
    \cup {Message("assistant", FALSE, <<>>)}

NoResponse == [has_data |-> FALSE, data |-> <<>>]

NotComputed == [computed |-> FALSE, value |-> <<>>]

Init ==
  /\ pc = "upload_file"
  /\ inflight = FALSE
  /\ uploaded_file = 0
  /\ vector_store = 0
  /\ toolset = {}
  /\ agent = 0
  /\ plugins = {}
  /\ thread = 0
  /\ user_inputs \in {UserInputs(n) : n \in 1..MaxQueries}
  /\ idx = 0
  /\ processed = 0
  /\ run = "none"
  /\ messages = NoResponse
  /\ printed = <<>>
  /\ pending = "none"
  /\ next_id = 1
  /\ live = {}
  /\ thread_msgs = <<>>
  /\ trace = <<>>
  /\ q_in = <<>>
  /\ ctx_in = <<>>
  /\ augmented = NotComputed

\* ------------------------------------------------------------ remote calls
Event(ev, op, t, a, r, role, content, k, result) ==
  [ev |-> ev, op |-> op, thread |-> t, agent |-> a, res |-> r,
   role |-> role, content |-> content, k |-> k, result |-> result]

\* the notebook issues the call of the statement at pc
Issue(op, t, a, r, role, content) ==
  /\ pc = op
  /\ inflight = FALSE
  /\ inflight' = TRUE
  /\ trace' = Append(trace, Event("call", op, t, a, r, role, content, idx, ""))

\* the call of the statement at pc returns result
Returns(op, result) ==
  /\ pc = op
  /\ inflight = TRUE
  /\ inflight' = FALSE
  /\ trace' = Append(trace, Event("ret", op, 0, 0, 0, "", <<>>, idx, result))

\* statements inside the try block of main()
TrySteps_early == {"create_thread", "for", "create_message",
                   "create_and_process_run", "list_messages", "extract",
                   "return"}

TrySteps == {"for", "create_message", "create_and_process_run",
             "list_messages", "extract", "return"}

\* the statements of the finally block, in program order
TeardownOrder_swapped ==
  <<"delete_agent", "delete_thread", "delete_file", "delete_vector_store">>

TeardownOrder ==
  <<"delete_thread", "delete_agent", "delete_file", "delete_vector_store">>

\* a finally block that goes on with the next delete when one raises
ExceptionTarget_protected(p) ==
  IF p \in TrySteps THEN TeardownOrder[1]
  ELSE IF \E j \in 1..(Len(TeardownOrder) - 1) : TeardownOrder[j] = p
    THEN TeardownOrder[(CHOOSE j \in 1..(Len(TeardownOrder) - 1) :
                          TeardownOrder[j] = p) + 1]
    ELSE "failed"

\* where control goes when the statement p raises
ExceptionTarget(p) == IF p \in TrySteps THEN TeardownOrder[1] ELSE "failed"

RemoteSteps == {"upload_file", "create_vector_store", "create_agent",
                "create_thread", "create_message", "create_and_process_run",
                "list_messages", "delete_thread", "delete_agent",
                "delete_file", "delete_vector_store"}

\* ------------------------------------------------- provisioning (cell 3, 4)
UploadFile ==
  /\ Issue("upload_file", 0, 0, 0, "", <<>>)
  /\ UNCHANGED <<pc, uploaded_file, vector_store, toolset, agent, plugins,
                 thread, user_inputs, idx, processed, run, messages, printed,
                 pending, next_id, live, thread_msgs, q_in, ctx_in, augmented>>

UploadFileReturns ==
  /\ Returns("upload_file", "")
  /\ uploaded_file' = next_id
  /\ live' = live \cup {next_id}
  /\ next_id' = next_id + 1
  /\ pc' = "create_vector_store"
  /\ UNCHANGED <<vector_store, toolset, agent, plugins, thread, user_inputs,
                 idx, processed, run, messages, printed, pending, thread_msgs,
                 q_in, ctx_in, augmented>>

CreateVectorStore ==
  /\ Issue("create_vector_store", 0, 0, uploaded_file, "", <<>>)
  /\ UNCHANGED <<pc, uploaded_file, vector_store, toolset, agent, plugins,
                 thread, user_inputs, idx, processed, run, messages, printed,
                 pending, next_id, live, thread_msgs, q_in, ctx_in, augmented>>

CreateVectorStoreReturns ==
  /\ Returns("create_vector_store", "")
  /\ vector_store' = next_id
  /\ live' = live \cup {next_id}
  /\ next_id' = next_id + 1
  /\ pc' = "toolset"
  /\ UNCHANGED <<uploaded_file, toolset, agent, plugins, thread, user_inputs,
                 idx, processed, run, messages, printed, pending, thread_msgs,
                 q_in, ctx_in, augmented>>

BuildToolset_file ==
  /\ pc = "toolset"
  /\ toolset' = {uploaded_file}
  /\ pc' = "create_agent"
  /\ UNCHANGED <<inflight, uploaded_file, vector_store, agent, plugins, thread,
                 user_inputs, idx, processed, run, messages, printed, pending,
                 next_id, live, thread_msgs, trace, q_in, ctx_in, augmented>>

BuildToolset ==
  /\ pc = "toolset"
  /\ toolset' = {vector_store}
  /\ pc' = "create_agent"
  /\ UNCHANGED <<inflight, uploaded_file, vector_store, agent, plugins, thread,
                 user_inputs, idx, processed, run, messages, printed, pending,
                 next_id, live, thread_msgs, trace, q_in, ctx_in, augmented>>

\* ------------------------------------------------------------------ main()
\* the vector store id of the FileSearchTool held by the toolset
ToolsetStore == CHOOSE v \in toolset : TRUE

\* create_agent is given the toolset
CreateAgent ==
  /\ Issue("create_agent", 0, 0, ToolsetStore, "", <<>>)
  /\ UNCHANGED <<pc, uploaded_file, vector_store, toolset, agent, plugins,
                 thread, user_inputs, idx, processed, run, messages, printed,
                 pending, next_id, live, thread_msgs, q_in, ctx_in, augmented>>

\* create_agent returns; AzureAIAgent is built over the definition and the
\* PromptPlugin is added to its kernel
CreateAgentReturns ==
  /\ Returns("create_agent", "")
  /\ agent' = next_id
  /\ plugins' = plugins \cup {"promptPlugin"}
  /\ live' = live \cup {next_id}
  /\ next_id' = next_id + 1
  /\ pc' = "create_thread"
  /\ UNCHANGED <<uploaded_file, vector_store, toolset, thread, user_inputs,
                 idx, processed, run, messages, printed, pending, thread_msgs,
                 q_in, ctx_in, augmented>>

CreateThread ==
  /\ Issue("create_thread", 0, 0, 0, "", <<>>)
  /\ UNCHANGED <<pc, uploaded_file, vector_store, toolset, agent, plugins,
                 thread, user_inputs, idx, processed, run, messages, printed,
                 pending, next_id, live, thread_msgs, q_in, ctx_in, augmented>>

CreateThreadReturns ==
  /\ Returns("create_thread", "")
  /\ thread' = next_id
  /\ live' = live \cup {next_id}
  /\ next_id' = next_id + 1
  /\ pc' = "for"
  /\ UNCHANGED <<uploaded_file, vector_store, toolset, agent, plugins,
                 user_inputs, idx, processed, run, messages, printed, pending,
                 thread_msgs, q_in, ctx_in, augmented>>

\* for user_query in user_inputs: the next query, or the end of the try block
ForNext ==
  /\ pc = "for"
  /\ IF idx < Len(user_inputs)
       THEN idx' = idx + 1 /\ pc' = "create_message"
       ELSE idx' = idx /\ pc' = TeardownOrder[1]
  /\ UNCHANGED <<inflight, uploaded_file, vector_store, toolset, agent,
                 plugins, thread, user_inputs, processed, run, messages,
                 printed, pending, next_id, live, thread_msgs, trace, q_in,
                 ctx_in, augmented>>

\* ----------------------------------------------------------- process_query
CreateMessage_augmented ==
  /\ Issue("create_message", thread, 0, 0, "user",
           build_augmented_prompt(user_inputs[idx], <<>>))
  /\ augmented' = [computed |-> TRUE,
                   value |-> build_augmented_prompt(user_inputs[idx], <<>>)]
  /\ UNCHANGED <<pc, uploaded_file, vector_store, toolset, agent, plugins,
                 thread, user_inputs, idx, processed, run, messages, printed,
                 pending, next_id, live, thread_msgs, q_in, ctx_in>>

CreateMessage_first ==
  /\ Issue("create_message", thread, 0, 0, "user", user_inputs[1])
  /\ UNCHANGED <<pc, uploaded_file, vector_store, toolset, agent, plugins,
                 thread, user_inputs, idx, processed, run, messages, printed,
                 pending, next_id, live, thread_msgs, q_in, ctx_in, augmented>>

CreateMessage ==
  /\ Issue("create_message", thread, 0, 0, "user", user_inputs[idx])
  /\ UNCHANGED <<pc, uploaded_file, vector_store, toolset, agent, plugins,
                 thread, user_inputs, idx, processed, run, messages, printed,
                 pending, next_id, live, thread_msgs, q_in, ctx_in, augmented>>

\* the remote side stores the message it was sent at the head of the thread
CreateMessageReturns ==
  /\ Returns("create_message", "")
  /\ LET sent == trace[Len(trace)]
     IN thread_msgs' =
          <<Message(sent.role, TRUE, <<TextBlock(sent.content)>>)>>
            \o thread_msgs
  /\ pc' = "create_and_process_run"
  /\ UNCHANGED <<uploaded_file, vector_store, toolset, agent, plugins, thread,
                 user_inputs, idx, processed, run, messages, printed, pending,
                 next_id, live, q_in, ctx_in, augmented>>

CreateAndProcessRun ==
  /\ Issue("create_and_process_run", thread, agent, 0, "", <<>>)
  /\ run' = "queued"
  /\ UNCHANGED <<pc, uploaded_file, vector_store, toolset, agent, plugins,
                 thread, user_inputs, idx, processed, messages, printed,
                 pending, next_id, live, thread_msgs, q_in, ctx_in, augmented>>

TerminalRunStates == {"completed", "failed"}

\* the remote run advances while create_and_process_run polls it; a run that
\* completes has put the agent's reply at the head of the thread
RunProgresses ==
  /\ pc = "create_and_process_run"
  /\ inflight = TRUE
  /\ \/ /\ run = "queued"
        /\ run' = "in_progress"
        /\ UNCHANGED thread_msgs
     \/ /\ run = "in_progress"
        /\ run' = "completed"
        /\ \E m \in Replies(idx) : thread_msgs' = <<m>> \o thread_msgs
     \/ /\ run = "in_progress"
        /\ run' = "failed"
        /\ UNCHANGED thread_msgs
  /\ UNCHANGED <<pc, inflight, uploaded_file, vector_store, toolset, agent,
                 plugins, thread, user_inputs, idx, processed, messages,
                 printed, pending, next_id, live, trace, q_in, ctx_in,
                 augmented>>

\* a state of the run in which create_and_process_run stops polling
RunReturnable_any == run \in {"queued", "in_progress", "completed", "failed"}

RunReturnable == run \in TerminalRunStates

CreateAndProcessRunReturns ==
  /\ Returns("create_and_process_run", run)
  /\ RunReturnable
  /\ pc' = "list_messages"
  /\ UNCHANGED <<uploaded_file, vector_store, toolset, agent, plugins, thread,
                 user_inputs, idx, processed, run, messages, printed, pending,
                 next_id, live, thread_msgs, q_in, ctx_in, augmented>>

ListMessages ==
  /\ Issue("list_messages", thread, 0, 0, "", <<>>)
  /\ UNCHANGED <<pc, uploaded_file, vector_store, toolset, agent, plugins,
                 thread, user_inputs, idx, processed, run, messages, printed,
                 pending, next_id, live, thread_msgs, q_in, ctx_in, augmented>>

\* what the remote side may answer to list_messages: the thread's messages,
\* most recent first, an empty list, or a response without a data field
ListResponses ==
  {[has_data |-> TRUE, data |-> thread_msgs],
   [has_data |-> TRUE, data |-> <<>>],
   NoResponse}

ListMessagesReturns ==
  /\ Returns("list_messages", "")
  /\ messages' \in ListResponses
  /\ pc' = "extract"
  /\ UNCHANGED <<uploaded_file, vector_store, toolset, agent, plugins, thread,
                 user_inputs, idx, processed, run, printed, pending, next_id,
                 live, thread_msgs, q_in, ctx_in, augmented>>

\* messages.get('data', [])
main_data(msgs) == IF msgs.has_data THEN msgs.data ELSE <<>>

\* first_msg.get("content", [])
content_of(msg) == IF msg.has_content THEN msg.content ELSE <<>>

\* the loop over the content blocks from block i on: out is what it prints,
\* err tells that content["text"] raised
RECURSIVE PrintTexts(_, _, _)
PrintTexts(content, i, out) ==
  IF i > Len(content) THEN [out |-> out, err |-> FALSE]
  ELSE IF content[i].type = "text"
    THEN IF content[i].has_text
           THEN PrintTexts(content, i + 1, Append(out, content[i].value))
           ELSE [out |-> out, err |-> TRUE]
    ELSE PrintTexts(content, i + 1, out)

\* the loop with a break after the first text block
RECURSIVE PrintFirstText(_, _, _)
PrintFirstText(content, i, out) ==
  IF i > Len(content) THEN [out |-> out, err |-> FALSE]
  ELSE IF content[i].type = "text"
    THEN IF content[i].has_text
           THEN [out |-> Append(out, content[i].value), err |-> FALSE]
           ELSE [out |-> out, err |-> TRUE]
    ELSE PrintFirstText(content, i + 1, out)

Nothing == [out |-> <<>>, err |-> FALSE]

ExtractAnswers_oldest(msgs) ==
  IF main_data(msgs) # <<>>
    THEN PrintTexts(content_of(main_data(msgs)[Len(main_data(msgs))]),
                    1, <<>>)
    ELSE Nothing

ExtractAnswers_break(msgs) ==
  IF main_data(msgs) # <<>>
    THEN PrintFirstText(content_of(main_data(msgs)[1]), 1, <<>>)
    ELSE Nothing

ExtractAnswers_strict(msgs) ==
  IF ~msgs.has_data \/ msgs.data = <<>> \/ ~msgs.data[1].has_content
    THEN [out |-> <<>>, err |-> TRUE]
    ELSE PrintTexts(msgs.data[1].content, 1, <<>>)

\* an extraction that prints only a message of the assistant
ExtractAnswers_assistant(msgs) ==
  IF main_data(msgs) # <<>> /\ main_data(msgs)[1].role = "assistant"
    THEN PrintTexts(content_of(main_data(msgs)[1]), 1, <<>>)
    ELSE Nothing

\* lines 196-202 of process_query: what is printed for the listed messages
ExtractAnswers(msgs) ==
  IF main_data(msgs) # <<>>
    THEN PrintTexts(content_of(main_data(msgs)[1]), 1, <<>>)
    ELSE Nothing

\* the printing of process_query after list_messages returned
Extract ==
  /\ pc = "extract"
  /\ LET r == ExtractAnswers(messages)
     IN /\ printed' = printed \o
                        [i \in 1..Len(r.out) |-> [k |-> idx, text |-> r.out[i]]]
        /\ pending' = IF r.err THEN "extract" ELSE pending
  /\ pc' = "return"
  /\ UNCHANGED <<inflight, uploaded_file, vector_store, toolset, agent,
                 plugins, thread, user_inputs, idx, processed, run, messages,
                 next_id, live, thread_msgs, trace, q_in, ctx_in, augmented>>

\* process_query is left, by its end or by the exception of the printing:
\* its local messages is gone, and main() goes on with the for loop or with
\* the exception
LeaveProcessQuery ==
  /\ pc = "return"
  /\ messages' = NoResponse
  /\ IF pending = "extract"
       THEN pc' = ExceptionTarget("extract") /\ UNCHANGED processed
       ELSE pc' = "for" /\ processed' = processed + 1
  /\ UNCHANGED <<inflight, uploaded_file, vector_store, toolset, agent,
                 plugins, thread, user_inputs, idx, run, printed, pending,
                 next_id, live, thread_msgs, trace, q_in, ctx_in, augmented>>

\* ------------------------------------------------------- the finally block
\* the statement after the teardown statement op; the pending exception, if
\* any, is re-raised when the block ends
AfterTeardown_swallow(op) ==
  LET i == CHOOSE j \in 1..Len(TeardownOrder) : TeardownOrder[j] = op
  IN IF i < Len(TeardownOrder) THEN TeardownOrder[i + 1] ELSE "done"

AfterTeardown(op) ==
  LET i == CHOOSE j \in 1..Len(TeardownOrder) : TeardownOrder[j] = op
  IN IF i < Len(TeardownOrder) THEN TeardownOrder[i + 1]
     ELSE IF pending = "none" THEN "done" ELSE "failed"

DeleteThread ==
  /\ Issue("delete_thread", thread, 0, 0, "", <<>>)
  /\ UNCHANGED <<pc, uploaded_file, vector_store, toolset, agent, plugins,
                 thread, user_inputs, idx, processed, run, messages, printed,
                 pending, next_id, live, thread_msgs, q_in, ctx_in, augmented>>

DeleteThreadReturns ==
  /\ Returns("delete_thread", "")
  /\ live' = live \ {thread}
  /\ pc' = AfterTeardown("delete_thread")
  /\ UNCHANGED <<uploaded_file, vector_store, toolset, agent, plugins, thread,
                 user_inputs, idx, processed, run, messages, printed, pending,
                 next_id, thread_msgs, q_in, ctx_in, augmented>>

DeleteAgent ==
  /\ Issue("delete_agent", 0, agent, 0, "", <<>>)
  /\ UNCHANGED <<pc, uploaded_file, vector_store, toolset, agent, plugins,
                 thread, user_inputs, idx, processed, run, messages, printed,
                 pending, next_id, live, thread_msgs, q_in, ctx_in, augmented>>

DeleteAgentReturns ==
  /\ Returns("delete_agent", "")
  /\ live' = live \ {agent}
  /\ pc' = AfterTeardown("delete_agent")
  /\ UNCHANGED <<uploaded_file, vector_store, toolset, agent, plugins, thread,
                 user_inputs, idx, processed, run, messages, printed, pending,
                 next_id, thread_msgs, q_in, ctx_in, augmented>>

DeleteFile ==
  /\ Issue("delete_file", 0, 0, uploaded_file, "", <<>>)
  /\ UNCHANGED <<pc, uploaded_file, vector_store, toolset, agent, plugins,
                 thread, user_inputs, idx, processed, run, messages, printed,
                 pending, next_id, live, thread_msgs, q_in, ctx_in, augmented>>

DeleteFileReturns ==
  /\ Returns("delete_file", "")
  /\ live' = live \ {uploaded_file}
  /\ pc' = AfterTeardown("delete_file")
  /\ UNCHANGED <<uploaded_file, vector_store, toolset, agent, plugins, thread,
                 user_inputs, idx, processed, run, messages, printed, pending,
                 next_id, thread_msgs, q_in, ctx_in, augmented>>

DeleteVectorStore ==
  /\ Issue("delete_vector_store", 0, 0, vector_store, "", <<>>)
  /\ UNCHANGED <<pc, uploaded_file, vector_store, toolset, agent, plugins,
                 thread, user_inputs, idx, processed, run, messages, printed,
                 pending, next_id, live, thread_msgs, q_in, ctx_in, augmented>>

DeleteVectorStoreReturns ==
  /\ Returns("delete_vector_store", "")
  /\ live' = live \ {vector_store}
  /\ pc' = AfterTeardown("delete_vector_store")
  /\ UNCHANGED <<uploaded_file, vector_store, toolset, agent, plugins, thread,
                 user_inputs, idx, processed, run, messages, printed, pending,
                 next_id, thread_msgs, q_in, ctx_in, augmented>>

\* ---------------------------------------------------------------- failures
\* the remote call in flight raises: nothing is assigned, the exception
\* propagates to the finally block if the try block was entered, else to the
\* top level
RemoteCallRaises ==
  /\ inflight = TRUE
  /\ pc \in RemoteSteps
  /\ inflight' = FALSE
  /\ trace' = Append(trace, Event("raise", pc, 0, 0, 0, "", <<>>, idx, ""))
  /\ pending' = pc
  /\ pc' = ExceptionTarget(pc)
  /\ UNCHANGED <<uploaded_file, vector_store, toolset, agent, plugins, thread,
                 user_inputs, idx, processed, run, messages, printed, next_id,
                 live, thread_msgs, q_in, ctx_in, augmented>>

Next ==
  \/ UploadFile
  \/ UploadFileReturns
  \/ CreateVectorStore
  \/ CreateVectorStoreReturns
  \/ BuildToolset
  \/ CreateAgent
  \/ CreateAgentReturns
  \/ CreateThread
  \/ CreateThreadReturns
  \/ ForNext
  \/ CreateMessage
  \/ CreateMessageReturns
  \/ CreateAndProcessRun
  \/ RunProgresses
  \/ CreateAndProcessRunReturns
  \/ ListMessages
  \/ ListMessagesReturns
  \/ Extract
  \/ LeaveProcessQuery
  \/ DeleteThread
  \/ DeleteThreadReturns
  \/ DeleteAgent
  \/ DeleteAgentReturns
  \/ DeleteFile
  \/ DeleteFileReturns
  \/ DeleteVectorStore
  \/ DeleteVectorStoreReturns
  \/ RemoteCallRaises

Spec == Init /\ [][Next]_vars

\* every remote call in flight is eventually answered, every run started
\* eventually reaches a terminal state, and the notebook takes its next step
FairSpec == Spec /\ WF_vars(Next)

\* ---------------------------------------- the plugin function on its own
InitPrompt ==
  /\ pc = "prompt"
  /\ inflight = FALSE
  /\ uploaded_file = 0
  /\ vector_store = 0
  /\ toolset = {}
  /\ agent = 0
  /\ plugins = {}
  /\ thread = 0
  /\ user_inputs = <<>>
  /\ idx = 0
  /\ processed = 0
  /\ run = "none"
  /\ messages = NoResponse
  /\ printed = <<>>
  /\ pending = "none"
  /\ next_id = 1
  /\ live = {}
  /\ thread_msgs = <<>>
  /\ trace = <<>>
  /\ q_in \in Strings
  /\ ctx_in \in Strings
  /\ augmented = NotComputed

CallBuildAugmentedPrompt ==
  /\ pc = "prompt"
  /\ augmented' = [computed |-> TRUE,
                   value |-> build_augmented_prompt(q_in, ctx_in)]
  /\ pc' = "prompt_done"
  /\ UNCHANGED <<inflight, uploaded_file, vector_store, toolset, agent,
                 plugins, thread, user_inputs, idx, processed, run, messages,
                 printed, pending, next_id, live, thread_msgs, trace, q_in,
                 ctx_in>>

NextPrompt == CallBuildAugmentedPrompt

SpecPrompt == InitPrompt /\ [][NextPrompt]_vars

\* ------------------------------------------------------ reading the trace
\* positions of the trace holding an event ev of the call op
Events(ev, op) ==
  {i \in 1..Len(trace) : trace[i].ev = ev /\ trace[i].op = op}

\* positions of the trace holding an event ev of the call op for query k
EventsOf(ev, op, k) == {i \in Events(ev, op) : trace[i].k = k}

Issued(op) == Events("call", op) # {}

\* an event ev of the call op stands in the trace before position n
Before(n, ev, op) ==
  \E m \in 1..(n - 1) : trace[m].ev = ev /\ trace[m].op = op

Terminated == pc \in {"done", "failed"}

\* the try block of main() has been entered
EnteredLoop == thread # 0

QuerySteps == {"create_message", "create_and_process_run", "list_messages"}

\* the texts printed for query k, in the order printed
RECURSIVE TextsFor(_, _)
TextsFor(k, i) ==
  IF i > Len(printed) THEN <<>>
  ELSE IF printed[i].k = k THEN <<printed[i].text>> \o TextsFor(k, i + 1)
  ELSE TextsFor(k, i + 1)

AnswersOf(k) == TextsFor(k, 1)

\* C1: once the thread exists and the try block is entered, an execution that
\* has ended has issued all four delete calls (delete_thread, delete_agent,
\* delete_file, delete_vector_store), whatever happened to the queries.
C1_TeardownIssuesAllFour ==
  (Terminated /\ EnteredLoop) =>
    \A op \in {"delete_thread", "delete_agent", "delete_file",
               "delete_vector_store"} : Issued(op)

\* C2: if the run of query k raises, no create_message, run or list_messages
\* call is issued for a later query, and when the execution has ended each of
\* the four delete calls was issued exactly once.
C2_RunFailureAbortsAndCleansUp ==
  \A k \in 1..Len(user_inputs) :
    EventsOf("raise", "create_and_process_run", k) # {} =>
      /\ \A i \in 1..Len(trace) :
           (trace[i].ev = "call" /\ trace[i].op \in QuerySteps)
             => trace[i].k <= k
      /\ Terminated =>
           \A op \in {"delete_thread", "delete_agent", "delete_file",
                      "delete_vector_store"} :
             Cardinality(Events("call", op)) = 1

\* C3: the delete calls are issued in the order delete_thread, delete_agent,
\* delete_file, delete_vector_store: when a delete is issued, every delete
\* before it in this order has been issued and has returned.
C3_TeardownOrder ==
  LET order == <<"delete_thread", "delete_agent", "delete_file",
                 "delete_vector_store">>
  IN \A n \in 1..Len(trace) :
       trace[n].ev = "call" =>
         \A b \in 2..4 :
           trace[n].op = order[b] =>
             \A a \in 1..(b - 1) : Before(n, "ret", order[a])

C3_Witness ==
  /\ pc = "failed"
  /\ pending = "list_messages"
  /\ Issued("delete_vector_store")
  /\ live = {}

IsAppendCall(e) == e.ev = "call" /\ e.op = "create_message"

IsRunCall(e) == e.ev = "call" /\ e.op = "create_and_process_run"

\* C4: an execution of N queries that ends without any failure has issued
\* exactly N create_message calls and N run calls, the k-th carrying the k-th
\* query, all on the thread (and agent) main() created; and at no time has a
\* query's message been appended before the queries before it were processed.
C4_QueriesInOrder ==
  /\ pc = "done" =>
       /\ SelectSeq(trace, IsAppendCall) =
            [k \in 1..Len(user_inputs) |->
               Event("call", "create_message", thread, 0, 0, "user",
                     user_inputs[k], k, "")]
       /\ SelectSeq(trace, IsRunCall) =
            [k \in 1..Len(user_inputs) |->
               Event("call", "create_and_process_run", thread, agent, 0, "",
                     <<>>, k, "")]
       /\ thread \in 1..(next_id - 1) /\ agent \in 1..(next_id - 1)
  /\ Cardinality(Events("call", "create_message")) <= processed + 1

C4_Witness ==
  /\ pc = "done"
  /\ Len(user_inputs) >= 2
  /\ Cardinality(Events("call", "create_and_process_run")) = Len(user_inputs)

\* list_messages has returned for the current query and process_query has
\* printed what it prints for what was returned
Extracted ==
  /\ idx >= 1
  /\ EventsOf("ret", "list_messages", idx) # {}
  /\ pc = "return"

IsTextBlock(b) == b.type = "text"

\* the blocks of content before the first text block without a text payload
WellFormedPrefix(content) ==
  LET bad == {i \in 1..Len(content) :
                content[i].type = "text" /\ ~content[i].has_text}
  IN IF bad = {} THEN content
     ELSE SubSeq(content, 1, (CHOOSE i \in bad : \A j \in bad : i <= j) - 1)

\* the text values of the text blocks of content, in order
TextValues(content) ==
  LET texts == SelectSeq(content, IsTextBlock)
  IN [i \in 1..Len(texts) |-> texts[i].value]

\* the content blocks of the most recent listed message
NewestContent ==
  IF messages.has_data /\ messages.data # <<>> /\ messages.data[1].has_content
    THEN messages.data[1].content
    ELSE <<>>

\* C5 as stated: what is printed for a query is the text of the first text
\* block of the most recent listed message and nothing else.
C5_OnlyFirstTextBlock ==
  (Extracted /\ pending # "extract") =>
    AnswersOf(idx) =
      IF TextValues(NewestContent) = <<>> THEN <<>>
      ELSE <<TextValues(NewestContent)[1]>>

\* C5 amended: what is printed for a query is the text of every text block of
\* the most recent listed message (element 0 of data), in block order, up to
\* the first text block whose text payload is missing; nothing of an older
\* message and no other block is printed.
C5_AllTextBlocksOfNewest ==
  Extracted => AnswersOf(idx) = TextValues(WellFormedPrefix(NewestContent))

C5_Witness ==
  /\ Extracted
  /\ pending = "none"
  /\ Len(messages.data) >= 3
  /\ Len(AnswersOf(idx)) = 2
  /\ messages.data[1].role = "assistant"

\* the listed messages give no answer: no data, no message, no content block
\* or no text block in the most recent message
NoAnswerListed == SelectSeq(NewestContent, IsTextBlock) = <<>>

\* C6: when the listed data is missing or empty, or the most recent message
\* has no content or no text block, nothing is printed for the query, no
\* error is raised and process_query returns, so the loop goes on.
C6_SilentNoResult ==
  /\ (Extracted /\ NoAnswerListed) =>
       /\ AnswersOf(idx) = <<>>
       /\ pending = "none"
       /\ ENABLED LeaveProcessQuery
  /\ (pc = "for" /\ idx >= 1) =>
       /\ processed = idx
       /\ ENABLED ForNext

C6_Witness ==
  /\ Extracted
  /\ NoAnswerListed
  /\ ~messages.has_data
  /\ idx = 2
  /\ AnswersOf(1) = <<>>
  /\ processed = 1

\* C7: the prompt built from (query, retrieval_context) is the header
\* "Retrieved Context:\n", the context unchanged, a blank line, "User Query: ",
\* the query unchanged, a blank line and the fixed instruction, which holds
\* the fallback phrase; nothing else, nothing cut.
C7_PromptLayout ==
  pc = "prompt_done" =>
    LET p == augmented.value
        a == Len(ContextHeader)
        b == a + Len(ctx_in)
        c == b + 2 + Len(QueryHeader)
        d == c + Len(q_in)
    IN /\ augmented.computed
       /\ Len(p) = d + 2 + Len(Instruction)
       /\ SubSeq(p, 1, a) = ContextHeader
       /\ SubSeq(p, a + 1, b) = ctx_in
       /\ SubSeq(p, b + 1, b + 2) = <<"\n", "\n">>
       /\ SubSeq(p, b + 3, c) = QueryHeader
       /\ SubSeq(p, c + 1, d) = q_in
       /\ SubSeq(p, d + 1, d + 2) = <<"\n", "\n">>
       /\ SubSeq(p, d + 3, Len(p)) = Instruction
       /\ \E j \in (d + 3)..Len(p) :
            SubSeq(p, j, j + Len(FallbackPhrase) - 1) = FallbackPhrase

C7_Witness ==
  /\ pc = "prompt_done"
  /\ q_in = <<"{", "\n">>
  /\ ctx_in = <<"a">>

\* C8: every message the program appends has role user and the raw query of
\* the input list as its content, and build_augmented_prompt is never called.
C8_RawUserMessages ==
  /\ \A i \in Events("call", "create_message") :
       /\ trace[i].role = "user"
       /\ trace[i].k \in 1..Len(user_inputs)
       /\ trace[i].content = user_inputs[trace[i].k]
  /\ \A j \in 1..Len(thread_msgs) :
       thread_msgs[j].role = "user" =>
         \E k \in 1..Len(user_inputs) :
           thread_msgs[j].content = <<TextBlock(user_inputs[k])>>
  /\ augmented = NotComputed

C8_Witness ==
  /\ Cardinality(Events("ret", "create_message")) = 2
  /\ Len(thread_msgs) >= 3
  /\ "promptPlugin" \in plugins

DeleteSteps == {"delete_thread", "delete_agent", "delete_file",
                "delete_vector_store"}

\* C9: when create_agent or create_thread raises after the file and the
\* vector store were created, the execution ends with the error, no delete
\* call is issued, and the file and the vector store (and the agent, if it is
\* create_thread that raised) still exist.
C9_EarlyFailureLeaks ==
  \A op \in {"create_agent", "create_thread"} :
    Events("raise", op) # {} =>
      /\ pc = "failed"
      /\ pending = op
      /\ \A i \in 1..Len(trace) : trace[i].op \notin DeleteSteps
      /\ uploaded_file # 0 /\ uploaded_file \in live
      /\ vector_store # 0 /\ vector_store \in live
      /\ op = "create_thread" => (agent # 0 /\ agent \in live)

C9_Witness ==
  /\ Events("raise", "create_thread") # {}
  /\ pc = "failed"
  /\ Cardinality(live) = 3

\* C10: within one query the run is issued only after create_message has
\* returned, list_messages only after the run call has returned with the run
\* in a terminal state, and an answer is printed only after list_messages
\* has returned.
C10_QueryStepOrder ==
  /\ \A n \in Events("call", "create_and_process_run") :
       \E m \in 1..(n - 1) :
         /\ trace[m].ev = "ret" /\ trace[m].op = "create_message"
         /\ trace[m].k = trace[n].k
  /\ \A n \in Events("call", "list_messages") :
       /\ \E m \in 1..(n - 1) :
            /\ trace[m].ev = "ret" /\ trace[m].op = "create_and_process_run"
            /\ trace[m].k = trace[n].k
            /\ trace[m].result \in {"completed", "failed"}
       /\ \E m \in 1..(n - 1) :
            /\ trace[m].ev = "call" /\ trace[m].op = "create_message"
            /\ trace[m].k = trace[n].k
  /\ \A i \in 1..Len(printed) :
       \E m \in 1..Len(trace) :
         /\ trace[m].ev = "ret" /\ trace[m].op = "list_messages"
         /\ trace[m].k = printed[i].k

C10_Witness ==
  /\ pc = "done"
  /\ Len(printed) >= 2
  /\ \E i \in Events("ret", "create_and_process_run") :
       trace[i].result = "failed"

\* positions of the trace where a call of a step of the set ops is issued
CallsIn(ops) ==
  {i \in 1..Len(trace) : trace[i].ev = "call" /\ trace[i].op \in ops}

\* C11: the lifecycle steps come in the order upload, vector store over the
\* uploaded file's id, toolset over that vector store's id, agent with that
\* toolset, thread, queries, teardown: no query step is issued before
\* create_thread has returned, and no delete is issued before the query loop
\* has ended, by processing every query or by an error.
C11_LifecycleOrder ==
  /\ \A n \in Events("call", "create_vector_store") :
       /\ Before(n, "ret", "upload_file")
       /\ uploaded_file # 0 /\ trace[n].res = uploaded_file
  /\ toolset # {} =>
       /\ Events("ret", "create_vector_store") # {}
       /\ vector_store # 0 /\ toolset = {vector_store}
  /\ \A n \in Events("call", "create_agent") :
       /\ Before(n, "ret", "create_vector_store")
       /\ trace[n].res = vector_store /\ toolset = {vector_store}
  /\ \A n \in Events("call", "create_thread") :
       Before(n, "ret", "create_agent")
  /\ \A n \in 1..Len(trace) :
       (trace[n].ev = "call" /\ trace[n].op \in QuerySteps) =>
         /\ Before(n, "ret", "create_thread")
         /\ trace[n].thread = thread /\ thread # 0
         /\ n < Len(trace) =>
              /\ trace[n + 1].op = trace[n].op
              /\ trace[n + 1].ev \in {"ret", "raise"}
  /\ \A d \in 1..Len(trace) :
       (trace[d].ev = "call" /\ trace[d].op \in DeleteSteps) =>
         /\ Before(d, "ret", "create_thread")
         /\ \A n \in (d + 1)..Len(trace) : trace[n].op \notin QuerySteps
         /\ \/ processed = Len(user_inputs)
            \/ \E j \in 1..(d - 1) :
                 trace[j].ev = "raise" /\ trace[j].op \in QuerySteps
            \/ /\ processed = idx - 1
               /\ \E j \in 1..(d - 1) :
                    /\ trace[j].ev = "ret" /\ trace[j].op = "list_messages"
                    /\ trace[j].k = idx

C11_Witness ==
  /\ pc = "done"
  /\ Len(user_inputs) >= 2
  /\ Cardinality(CallsIn(DeleteSteps)) = 4
  /\ Cardinality(CallsIn(QuerySteps)) = 3 * Len(user_inputs)

\* the try block was left before every query was processed: a step of the
\* query loop raised
LoopRaised ==
  /\ EnteredLoop
  /\ pc \in DeleteSteps \cup {"done", "failed"}
  /\ processed < Len(user_inputs)

\* C12: an error raised by a step of the query loop is not swallowed by the
\* cleanup: the execution never ends as done, once the four deletes have
\* returned it has ended as failed with that error, and no query step is
\* issued after the teardown began.
C12_ErrorSurfaces ==
  LoopRaised =>
    /\ pc # "done"
    /\ pending # "none"
    /\ Events("ret", "delete_vector_store") # {} =>
         (pc = "failed" /\ pending \in QuerySteps \cup {"extract"})
    /\ \A d \in CallsIn(DeleteSteps) : \A n \in CallsIn(QuerySteps) : n < d
    /\ Cardinality(Events("call", "create_message")) = processed + 1

C12_Witness ==
  /\ LoopRaised
  /\ pc = "failed"
  /\ pending = "create_and_process_run"
  /\ Events("ret", "delete_vector_store") # {}
  /\ idx = 1
  /\ Len(user_inputs) = 2

\* create_and_process_run has been called and has not come back
WaitingForRun == pc = "create_and_process_run" /\ inflight

\* C13: when every remote call is answered every execution ends, and one that
\* entered the query loop has started the teardown when it ends; the program
\* has no timeout of its own: it leaves the wait for a run only when the run
\* call returns with the run in a terminal state or raises, so while a run
\* stays non-terminal no teardown call is issued.
C13_TerminatesAndWaits ==
  /\ <>Terminated
  /\ [](Terminated /\ EnteredLoop => Issued("delete_thread"))
  /\ [](WaitingForRun =>
          /\ ~Terminated
          /\ CallsIn(DeleteSteps) = {})
  /\ [][(WaitingForRun /\ ~WaitingForRun') =>
          LET last == trace'[Len(trace')]
          IN /\ last.op = "create_and_process_run"
             /\ \/ last.ev = "raise"
                \/ last.ev = "ret" /\ run \in {"completed", "failed"}]_vars

C13_Witness ==
  /\ Terminated
  /\ EnteredLoop
  /\ Issued("delete_thread")
  /\ Events("ret", "create_and_process_run") # {}
  /\ processed = Len(user_inputs)

\* the id a delete call is given
DeleteTarget(e) ==
  CASE e.op = "delete_thread" -> e.thread
    [] e.op = "delete_agent" -> e.agent
    [] OTHER -> e.res

\* the call that creates what the delete step op deletes
CreatorOf(op) ==
  CASE op = "delete_thread" -> "create_thread"
    [] op = "delete_agent" -> "create_agent"
    [] op = "delete_file" -> "upload_file"
    [] OTHER -> "create_vector_store"

\* the variable holding the id of what the delete step op deletes
HandleOf(op) ==
  CASE op = "delete_thread" -> thread
    [] op = "delete_agent" -> agent
    [] op = "delete_file" -> uploaded_file
    [] OTHER -> vector_store

\* C14: a delete call is issued only for a resource created before in the
\* same execution, each of the four resources is deleted at most once, one
\* agent and one thread are created per execution that reaches the loop, and
\* no create_message, run or list_messages call follows delete_thread.
C14_ResourceSafety ==
  /\ \A d \in 1..Len(trace) :
       (trace[d].ev = "call" /\ trace[d].op \in DeleteSteps) =>
         /\ DeleteTarget(trace[d]) # 0
         /\ DeleteTarget(trace[d]) = HandleOf(trace[d].op)
         /\ Before(d, "ret", CreatorOf(trace[d].op))
  /\ \A op \in DeleteSteps :
       /\ Cardinality(Events("call", op)) <= 1
       /\ Events("ret", op) # {} => HandleOf(op) \notin live
  /\ \A op \in {"upload_file", "create_vector_store", "create_agent",
                "create_thread"} :
       Cardinality(Events("call", op)) <= 1
  /\ EnteredLoop =>
       /\ Cardinality(Events("ret", "create_agent")) = 1
       /\ Cardinality(Events("ret", "create_thread")) = 1
       /\ Cardinality({uploaded_file, vector_store, agent, thread}) = 4
  /\ \A d \in Events("call", "delete_thread") :
       \A n \in (d + 1)..Len(trace) : trace[n].op \notin QuerySteps

C14_Witness ==
  /\ pc = "done"
  /\ live = {}
  /\ Cardinality(CallsIn(DeleteSteps)) = 4
  /\ Cardinality(CallsIn(QuerySteps)) >= 6

DeleteSequence ==
  <<"delete_thread", "delete_agent", "delete_file", "delete_vector_store">>

\* C15: when a delete call of the finally block raises, every delete after it
\* in the order thread, agent, file, vector store is never issued, what those
\* would have deleted still exists, and the execution has ended with the
\* error of that delete.
C15_TeardownUnprotected ==
  \A a \in 1..4 :
    Events("raise", DeleteSequence[a]) # {} =>
      /\ pc = "failed"
      /\ pending = DeleteSequence[a]
      /\ \A b \in (a + 1)..4 :
           /\ ~Issued(DeleteSequence[b])
           /\ HandleOf(DeleteSequence[b]) \in live
      /\ \A b \in 1..(a - 1) : Events("ret", DeleteSequence[b]) # {}

C15_Witness ==
  /\ Events("raise", "delete_thread") # {}
  /\ pc = "failed"
  /\ {agent, uploaded_file, vector_store} \subseteq live
  /\ processed = Len(user_inputs)

\* the run of the current query came back without a reply of the agent: the
\* thread's most recent message is still the user's, and that is what
\* list_messages returned
NoReplyListed ==
  /\ Extracted
  /\ EventsOf("ret", "create_and_process_run", idx) # {}
  /\ thread_msgs # <<>> /\ thread_msgs[1].role = "user"
  /\ messages = [has_data |-> TRUE, data |-> thread_msgs]

\* C16: when the run call returns in a terminal state without a reply of the
\* agent in the thread (a run that ended failed without raising), what is
\* printed as the response to the query is the query's own text, no error is
\* raised and the loop goes on with the next query.
C16_EchoesUserQuery ==
  NoReplyListed =>
    /\ \A m \in EventsOf("ret", "create_and_process_run", idx) :
         trace[m].result \in {"completed", "failed"}
    /\ AnswersOf(idx) = <<user_inputs[idx]>>
    /\ pending = "none"
    /\ processed = idx - 1
    /\ ENABLED LeaveProcessQuery

C16_Witness ==
  /\ NoReplyListed
  /\ idx = 2
  /\ AnswersOf(1) = <<Query(1)>>
  /\ AnswersOf(2) = <<Query(2)>>
  /\ \E m \in EventsOf("ret", "create_and_process_run", 1) :
       trace[m].result = "failed"
  /\ Cardinality(Events("call", "create_message")) = 2

=============================================================================
